---- MODULE Spec2Model ----
(***************************************************************************)
(* Model of soem_interface_backup.c: CiA 402 drive bring-up over an        *)
(* EtherCAT master (SOEM), the cyclic exchange thread and the control      *)
(* thread's API.                                                           *)
(*                                                                         *)
(* Two threads: the control thread (pc) runs the public API; the cyclic    *)
(* thread (cyc) runs ecat_loop.  The transport (SOEM) and the drive are    *)
(* the environment: every answer they give is a nondeterministic choice.   *)
(***************************************************************************)
EXTENDS Integers, Sequences, FiniteSets, TLC

\* ------------------------------------------------------------ constants

EC_STATE_NONE == 0
EC_STATE_INIT == 1
EC_STATE_PRE_OP == 2
EC_STATE_SAFE_OP == 4
EC_STATE_OPERATIONAL == 8

CIA402_STATUSWORD_FAULT == 8
CIA402_CONTROLWORD_FAULT_RESET == 128

\* max_attempts of perform_cia402_transition_to_operational
max_attempts == 50

\* ------------------------------------------------------------ bit fields

RECURSIVE BitAndFrom(_, _, _)
BitAndFrom(a, b, i) ==
    IF i > 15 THEN 0
    ELSE (IF (a \div (2 ^ i)) % 2 = 1 /\ (b \div (2 ^ i)) % 2 = 1 THEN 2 ^ i ELSE 0)
         + BitAndFrom(a, b, i + 1)

\* the C operator & on uint16_t operands
BitAnd(a, b) == BitAndFrom(a, b, 0)

\* ------------------------------------------------------------ StatusDecoder

\* variant of get_cia402_state: no test of the fault bit for an unlisted pattern
get_cia402_state_nofault(statusword) ==
    LET state_bits == BitAnd(statusword, 111)
    IN  CASE state_bits = 0  -> "NOT_READY"
          [] state_bits = 64 -> "SWITCH_ON_DISABLED"
          [] state_bits = 33 -> "READY_TO_SWITCH_ON"
          [] state_bits = 35 -> "SWITCHED_ON"
          [] state_bits = 39 -> "OPERATION_ENABLED"
          [] state_bits = 7  -> "QUICK_STOP_ACTIVE"
          [] state_bits = 15 -> "FAULT_REACTION_ACTIVE"
          [] state_bits = 8  -> "FAULT"
          [] OTHER -> "NOT_READY"

\* lines 89-109
get_cia402_state(statusword) ==
    LET state_bits == BitAnd(statusword, 111)   \* 0x006F
    IN  CASE state_bits = 0  -> "NOT_READY"
          [] state_bits = 64 -> "SWITCH_ON_DISABLED"
          [] state_bits = 33 -> "READY_TO_SWITCH_ON"
          [] state_bits = 35 -> "SWITCHED_ON"
          [] state_bits = 39 -> "OPERATION_ENABLED"
          [] state_bits = 7  -> "QUICK_STOP_ACTIVE"
          [] state_bits = 15 -> "FAULT_REACTION_ACTIVE"
          [] state_bits = 8  -> "FAULT"
          [] OTHER -> IF BitAnd(statusword, CIA402_STATUSWORD_FAULT) # 0
                      THEN "FAULT" ELSE "NOT_READY"

\* variant of TransitionControlword: a fault is answered with Shutdown
TransitionControlword_nofaultreset(state) ==
    CASE state \in {"NOT_READY", "SWITCH_ON_DISABLED"} -> 6
      [] state = "READY_TO_SWITCH_ON" -> 7
      [] state = "SWITCHED_ON" -> 15
      [] OTHER -> 6

\* variant of TransitionControlword: SWITCHED_ON is answered with Switch On again
TransitionControlword_noenable(state) ==
    IF state = "FAULT" THEN CIA402_CONTROLWORD_FAULT_RESET
    ELSE CASE state = "READY_TO_SWITCH_ON" -> 7
           [] state = "SWITCHED_ON" -> 7
           [] OTHER -> 6

\* the controlword perform_cia402_transition_to_operational stores for a
\* decoded state other than OPERATION_ENABLED (lines 385-408)
TransitionControlword(state) ==
    IF state = "FAULT" THEN CIA402_CONTROLWORD_FAULT_RESET
    ELSE CASE state \in {"NOT_READY", "SWITCH_ON_DISABLED"} -> 6
           [] state = "READY_TO_SWITCH_ON" -> 7
           [] state = "SWITCHED_ON" -> 15
           [] state = "QUICK_STOP_ACTIVE" -> 6
           [] OTHER -> 6

\* ------------------------------------------------------------ environment

\* input process images the drive can return: statusword, position, velocity
\* 0 = not ready, 567 = 0x0237 (0x27 plus the remote bit), 8 = 0x0008 (fault)
InImages ==
    { [statusword |-> 0,   position_actual_value |-> 0, velocity_actual_value |-> 0],
      [statusword |-> 567, position_actual_value |-> 1, velocity_actual_value |-> 1],
      [statusword |-> 8,   position_actual_value |-> 0, velocity_actual_value |-> 1] }

\* setpoints the control thread passes to set_target_torque, in units of 1e-4
\* (-0.5004, 0 and 40.0)
TorqueInputs == {0, 0 - 5004, 400000}

\* what (int16_t)(x) may yield for a float outside the range of int16_t
Int16OutOfRange == {0 - 25536, 0, 32767}

\* (int16_t)(target_torque_f * 1000.0f): the set of possible results
TorqueField(t) ==
    LET mag == (IF t < 0 THEN 0 - t ELSE t) \div 10
        v == IF t < 0 THEN 0 - mag ELSE mag
    IN  IF v >= 0 - 32768 /\ v <= 32767 THEN {v} ELSE Int16OutOfRange

VARIABLES
    pc,                       \* control thread: position in the API
    stack,                    \* control thread: return labels of the calls in progress
    rv,                       \* control thread: value returned by the last call
    cyc,                      \* cyclic thread: position in ecat_loop
    mutex,                    \* pdo_mutex: "none", "ctl" or "cyc"
    ecat_thread_running,
    master_initialized,
    communication_ok,
    target_torque_f,
    current_position_f,
    current_velocity_f,
    current_cia402_state,
    current_statusword,
    current_controlword,
    wkc,
    expectedWKC,
    state_machine_initialized, \* local of ecat_loop
    attempt,                   \* local of perform_cia402_transition_to_operational
    somanet_outputs,           \* TRUE when the pointer is set
    somanet_inputs,
    outputs,                   \* the output process image
    inputs,                    \* the input process image
    ec_state,                  \* ec_slave[i].state, i in 0..1
    Obits,                     \* ec_slave[1].Obits
    Ibits,                     \* ec_slave[1].Ibits
    ss_slave,                  \* soem_interface_set_ethercat_state: slave_idx
    desired_state,             \* soem_interface_set_ethercat_state: desired_state
    retry_count,               \* soem_interface_set_ethercat_state: retry_count
    ss_log,                    \* history: states requested by the call of set_state in progress
    ss_stuck,                  \* history: every poll of that call read PRE-OP
    neg_pdo,                   \* ..._configure_pdo_mapping_enhanced: "rx" or "tx"
    idx,                       \* loop index of the function the control thread is in
    od,                        \* the drive's PDO assignment and mapping objects
    sdo_log,                   \* SDO writes issued by the current negotiation
    perform_invoked,           \* history: perform_cia402_... has been called
    read_fault,                \* history: the current negotiation saw a failed read
                               \* or an unconfirmed PRE-OP request
    od_prev,                   \* history: the mapping the negotiation started from
    drive,                     \* the drive: "any" (it answers with any image) or the
                               \* CiA 402 state of a drive that follows the profile
    cmd_log,                   \* history: controlwords that made that drive change state
    stage_log,                 \* history: stages of soem_interface_init_enhanced begun
    param_failed,              \* history: an optional parameter write of this bring-up failed
    calls,                     \* harness: negotiations completed
    prev_rv                    \* harness: result of the previous negotiation

register == <<communication_ok, target_torque_f, current_position_f, current_velocity_f,
              current_cia402_state, current_statusword, current_controlword>>
life == <<master_initialized, ecat_thread_running>>
cyclocals == <<state_machine_initialized, attempt, perform_invoked>>
image == <<somanet_outputs, somanet_inputs, outputs, inputs>>
sizes == <<Obits, Ibits, expectedWKC>>
sslocals == <<ss_slave, desired_state, retry_count, ss_log, ss_stuck>>
sdo == <<od, sdo_log, read_fault, od_prev>>
harness == <<calls, prev_rv, stage_log, param_failed>>
plant == <<drive, cmd_log>>
ctl == <<pc, stack, rv>>

vars == <<pc, stack, rv, cyc, mutex, ecat_thread_running, master_initialized,
          communication_ok, target_torque_f, current_position_f, current_velocity_f,
          current_cia402_state, current_statusword, current_controlword,
          wkc, expectedWKC, state_machine_initialized, attempt,
          somanet_outputs, somanet_inputs, outputs, inputs,
          ec_state, Obits, Ibits, ss_slave, desired_state, retry_count, ss_log, ss_stuck,
          neg_pdo, idx, od, sdo_log, perform_invoked, read_fault, od_prev,
          drive, cmd_log, stage_log, param_failed, calls, prev_rv>>

\* ------------------------------------------------------------ program constants

\* set_ethercat_state: max_retries
max_retries == 5
\* init_enhanced: target_pdo_bits and target_pdo_bytes
target_pdo_bits == 13
target_pdo_bytes == (target_pdo_bits + 7) \div 8
\* EC_STATE_ERROR of ethercattype.h, the error flag of ec_slave[].state
EC_STATE_ERROR == 16

\* rxpdo_mapping: 0x60400010, 0x60600008, 0x60710010, 0x607A0020
rxpdo_mapping == <<1614807056, 1616904200, 1618018320, 1618608160>>
\* txpdo_mapping: 0x60410010, 0x60610008, 0x60640020, 0x60770010
txpdo_mapping == <<1614872592, 1616969736, 1617166368, 1618411536>>

\* the arguments of the two calls of lines 728 and 733
Pdos == {"rx", "tx"}
mapped_objects(p) == IF p = "rx" THEN rxpdo_mapping ELSE txpdo_mapping
num_mapped_objects(p) == Len(mapped_objects(p))
\* 0x1C12 / 0x1C13 and 0x1600 / 0x1A00
pdo_assign_idx(p) == IF p = "rx" THEN 7186 ELSE 7187
pdo_map_idx(p) == IF p = "rx" THEN 5632 ELSE 6656

\* ------------------------------------------------------------ the drive's objects

\* number of entry subindices a mapping object of the drive offers
OdSlots == 4
\* a mapping entry that is in neither target list: 0x60FF0020
OtherEntry == 1627324448
\* largest value the drive is started with in subindex 0 of an assignment object
MaxAssign == 2

\* entries a slot of the drive's mapping object p can hold before negotiation
SlotValues(p, i) ==
    (IF i <= num_mapped_objects(p) THEN {mapped_objects(p)[i]} ELSE {}) \cup {OtherEntry}

\* every content of the objects of one PDO
OdContents(p) ==
    { [assign |-> a, count |-> c, entries |-> e] :
        a \in 0..MaxAssign, c \in 0..OdSlots,
        e \in { s \in [1..OdSlots -> {OtherEntry} \cup
                                     {mapped_objects(p)[i] : i \in 1..num_mapped_objects(p)}] :
                \A i \in 1..OdSlots : s[i] \in SlotValues(p, i) } }

\* the list the drive holds as its active mapping: entries 1..count
ActiveList(o) == [i \in 1..o.count |-> o.entries[i]]

\* the mapping of a drive as delivered: two entries, the second not the target's
DefaultOd(p) ==
    [assign |-> 1, count |-> 2,
     entries |-> [i \in 1..OdSlots |-> IF i = 1 THEN mapped_objects(p)[1] ELSE OtherEntry]]

\* the drive already holds the target list
TargetOd(p) ==
    [assign |-> 1, count |-> num_mapped_objects(p),
     entries |-> [i \in 1..OdSlots |->
                    IF i <= num_mapped_objects(p) THEN mapped_objects(p)[i] ELSE OtherEntry]]

\* the objects once the process image is mapped: no later step reads or writes them
OdMapped == [p \in Pdos |-> [assign |-> 0, count |-> 0, entries |-> <<>>]]

\* ------------------------------------------------------------ initial state

\* static initialisers of lines 76-86 and the zeroed IOmap
InitProgram ==
    /\ stack = <<>>
    /\ rv = 0
    /\ cyc = "none"
    /\ mutex = "none"
    /\ ecat_thread_running = 0
    /\ master_initialized = 0
    /\ communication_ok = 0
    /\ target_torque_f = 0
    /\ current_position_f = 0
    /\ current_velocity_f = 0
    /\ current_cia402_state = "NOT_READY"
    /\ current_statusword = 0
    /\ current_controlword = 0
    /\ wkc = 0
    /\ expectedWKC = 0
    /\ state_machine_initialized = 0
    /\ attempt = 0
    /\ somanet_outputs = FALSE
    /\ somanet_inputs = FALSE
    /\ outputs = [controlword |-> 0, modes_of_operation |-> 0, target_torque |-> 0]
    /\ inputs = [statusword |-> 0, position_actual_value |-> 0, velocity_actual_value |-> 0]
    /\ ec_state = [i \in 0..1 |-> EC_STATE_NONE]
    /\ Obits = 0
    /\ Ibits = 0
    /\ ss_slave = 0
    /\ desired_state = EC_STATE_NONE
    /\ retry_count = 0
    /\ ss_log = <<>>
    /\ ss_stuck = TRUE
    /\ idx = 0
    /\ sdo_log = <<>>
    /\ perform_invoked = FALSE
    /\ read_fault = FALSE
    /\ drive = "any"
    /\ cmd_log = <<>>
    /\ stage_log = <<>>
    /\ param_failed = FALSE
    /\ calls = 0
    /\ prev_rv = 0

\* the whole system: the caller has not yet called soem_interface_init_enhanced
Init ==
    /\ InitProgram
    /\ pc = "boot"
    /\ neg_pdo = "rx"
    /\ od \in { [p \in Pdos |-> DefaultOd(p)], [p \in Pdos |-> TargetOd(p)] }
    /\ od_prev = od["rx"]

\* ------------------------------------------------------------ calls

Call(entry, ret) ==
    /\ pc' = entry
    /\ stack' = <<ret>> \o stack

Return(val) ==
    /\ pc' = Head(stack)
    /\ stack' = Tail(stack)
    /\ rv' = val

\* what a step of the control thread inside bring-up or shutdown code leaves alone
cycside == <<cyc, mutex, register, cyclocals, wkc>>

\* ------------------------------------------------------------ transport: slave states

\* what ec_statecheck(slave, desired, timeout) can read from the slave (and
\* returns): no answer, PRE-OP with the error flag, or the state asked for
StateCheckResults(desired) ==
    {EC_STATE_NONE, EC_STATE_PRE_OP + EC_STATE_ERROR, desired}

\* ------------------------------------------------------------ SlaveStateController
\* soem_interface_set_ethercat_state(ss_slave, desired_state)

\* return from set_state: the locals and the history of the call end with it
SetStateReturn(val) ==
    /\ Return(val)
    /\ retry_count' = 0
    /\ ss_log' = <<>>
    /\ ss_stuck' = TRUE
    /\ UNCHANGED <<ss_slave, desired_state>>

\* a poll of the slave read observed
Polled(observed) ==
    ss_stuck' = (ss_stuck /\ observed % 16 = EC_STATE_PRE_OP)

\* variant of SetStateRetry: the loop test lets one more attempt through
SetStateRetry_sixth(observed) ==
    IF retry_count + 1 <= max_retries
    THEN /\ retry_count' = retry_count + 1
         /\ pc' = "ss_req"
         /\ Polled(observed)
         /\ UNCHANGED <<stack, rv, ss_slave, desired_state, ss_log>>
    ELSE SetStateReturn(0 - 1)

\* lines 345-354, after a poll that read observed: count the attempt, go round
\* the loop or give up
SetStateRetry(observed) ==
    IF retry_count + 1 < max_retries
    THEN /\ retry_count' = retry_count + 1
         /\ pc' = "ss_req"
         /\ Polled(observed)
         /\ UNCHANGED <<stack, rv, ss_slave, desired_state, ss_log>>
    ELSE SetStateReturn(0 - 1)

\* lines 300-307: ec_slave[slave].state = desired_state; ec_writestate(slave)
SetStateRequest ==
    /\ pc = "ss_req"
    /\ ec_state' = [ec_state EXCEPT ![ss_slave] = desired_state]
    /\ ss_log' = Append(ss_log, desired_state)
    /\ pc' = "ss_chk"
    /\ UNCHANGED <<stack, rv, ss_slave, desired_state, retry_count, ss_stuck, life, image,
                   sizes, neg_pdo, idx, sdo, harness, plant, cycside>>

\* the test of line 312
StateConfirmed(wkc_state, observed) ==
    wkc_state > 0 /\ observed % 16 = desired_state

\* lines 310-323
SetStateCheck ==
    /\ pc = "ss_chk"
    /\ \E observed \in StateCheckResults(desired_state) :
          /\ ec_state' = [ec_state EXCEPT ![ss_slave] = observed]
          /\ IF StateConfirmed(observed, observed)
             THEN SetStateReturn(0)
             ELSE IF desired_state = EC_STATE_OPERATIONAL /\ observed % 16 = EC_STATE_PRE_OP
                  THEN /\ pc' = "ss_esc1"
                       /\ Polled(observed)
                       /\ UNCHANGED <<stack, rv, ss_slave, desired_state, retry_count, ss_log>>
                  ELSE SetStateRetry(observed)
    /\ UNCHANGED <<life, image, sizes, neg_pdo, idx, sdo, harness, plant, cycside>>

\* lines 327-329: request SAFE_OP
SetStateEscalate ==
    /\ pc = "ss_esc1"
    /\ ec_state' = [ec_state EXCEPT ![ss_slave] = EC_STATE_SAFE_OP]
    /\ ss_log' = Append(ss_log, EC_STATE_SAFE_OP)
    /\ pc' = "ss_esc2"
    /\ UNCHANGED <<stack, rv, ss_slave, desired_state, retry_count, ss_stuck, life, image,
                   sizes, neg_pdo, idx, sdo, harness, plant, cycside>>

\* line 331
SetStateEscalateCheck ==
    /\ pc = "ss_esc2"
    /\ \E observed \in StateCheckResults(EC_STATE_SAFE_OP) :
          /\ ec_state' = [ec_state EXCEPT ![ss_slave] = observed]
          /\ IF observed > 0
             THEN /\ pc' = "ss_esc3"
                  /\ Polled(observed)
                  /\ UNCHANGED <<stack, rv, ss_slave, desired_state, retry_count, ss_log>>
             ELSE SetStateRetry(observed)
    /\ UNCHANGED <<life, image, sizes, neg_pdo, idx, sdo, harness, plant, cycside>>

\* lines 334-336: request OPERATIONAL again
SetStateReRequest ==
    /\ pc = "ss_esc3"
    /\ ec_state' = [ec_state EXCEPT ![ss_slave] = EC_STATE_OPERATIONAL]
    /\ ss_log' = Append(ss_log, EC_STATE_OPERATIONAL)
    /\ pc' = "ss_esc4"
    /\ UNCHANGED <<stack, rv, ss_slave, desired_state, retry_count, ss_stuck, life, image,
                   sizes, neg_pdo, idx, sdo, harness, plant, cycside>>

\* variant of ReCheckOk: the state read must be OPERATIONAL
ReCheckOk_strict(observed) == observed > 0 /\ observed % 16 = EC_STATE_OPERATIONAL

\* the test of line 338
ReCheckOk(observed) == observed > 0

\* lines 338-342
SetStateReCheck ==
    /\ pc = "ss_esc4"
    /\ \E observed \in StateCheckResults(EC_STATE_OPERATIONAL) :
          /\ ec_state' = [ec_state EXCEPT ![ss_slave] = observed]
          /\ IF ReCheckOk(observed)
             THEN SetStateReturn(0)
             ELSE SetStateRetry(observed)
    /\ UNCHANGED <<life, image, sizes, neg_pdo, idx, sdo, harness, plant, cycside>>

SetState ==
    \/ SetStateRequest \/ SetStateCheck \/ SetStateEscalate \/ SetStateEscalateCheck
    \/ SetStateReRequest \/ SetStateReCheck

\* a call of soem_interface_set_ethercat_state(slave, state) that returns to ret
CallSetState(slave, state, ret) ==
    /\ Call("ss_req", ret)
    /\ ss_slave' = slave
    /\ desired_state' = state
    /\ retry_count' = 0
    /\ ss_log' = <<>>
    /\ ss_stuck' = TRUE

\* ------------------------------------------------------------ set_state alone
\* a caller that calls soem_interface_set_ethercat_state once, with any of the
\* arguments the program passes (slave 0 or 1; INIT, PRE-OP, SAFE-OP, OPERATIONAL)

InitSS ==
    /\ InitProgram
    /\ pc = "hs_call"
    /\ neg_pdo = "rx"
    /\ od = [p \in Pdos |-> DefaultOd(p)]
    /\ od_prev = od["rx"]

HarnessSetState ==
    /\ pc = "hs_call"
    /\ \E slave \in 0..1 :
       \E state \in {EC_STATE_INIT, EC_STATE_PRE_OP, EC_STATE_SAFE_OP, EC_STATE_OPERATIONAL} :
          CallSetState(slave, state, "hs_ret")
    /\ UNCHANGED <<rv, life, image, sizes, ec_state, neg_pdo, idx, sdo, harness, plant, cycside>>

NextSS == HarnessSetState \/ SetState

SpecSS == InitSS /\ [][NextSS]_vars

\* every call is made and runs on: the caller and set_state do not stop half way
SpecSSLive == SpecSS /\ WF_vars(NextSS)

\* ------------------------------------------------------------ transport: SDO

\* an SDO write can be acknowledged ("ok"), fail without effect ("fail"), or
\* take effect while its acknowledgement is lost ("lost"); the last two make
\* ec_SDOwrite return 0
SdoWriteOutcomes == {"ok", "fail", "lost"}

\* the drive stores value v at subindex sub of the assignment or mapping object
OdStore(o, p, object, sub, v) ==
    IF object = "assign" THEN [o EXCEPT ![p].assign = v]
    ELSE IF sub = 0 THEN [o EXCEPT ![p].count = v]
    ELSE [o EXCEPT ![p].entries[sub] = v]

\* soem_interface_write_sdo on an object of PDO neg_pdo
SdoWrite(object, sub, v, outcome) ==
    /\ sdo_log' = Append(sdo_log,
                         <<IF object = "assign" THEN pdo_assign_idx(neg_pdo)
                           ELSE pdo_map_idx(neg_pdo), sub, v>>)
    /\ od' = IF outcome = "fail" THEN od ELSE OdStore(od, neg_pdo, object, sub, v)

\* ------------------------------------------------------------ PdoMappingNegotiator
\* soem_interface_configure_pdo_mapping_enhanced(1, assign, map, list, n)

\* initial value of the local original_assign_val (line 549)
original_assign_val == 1

negframe == <<life, image, sizes, ec_state, harness, plant, cycside>>

\* a call that returns to ret
CallNegotiate(p, ret) ==
    /\ Call("n_preop", ret)
    /\ neg_pdo' = p
    /\ idx' = 0
    /\ sdo_log' = <<>>
    /\ read_fault' = FALSE
    /\ od_prev' = od[p]
    /\ UNCHANGED od

NegReturn(val) ==
    /\ Return(val)
    /\ idx' = 0

\* variant of NegPreOp: the state asked for is INIT
NegPreOp_init ==
    /\ pc = "n_preop"
    /\ CallSetState(1, EC_STATE_INIT, "n_rdcnt")
    /\ UNCHANGED <<rv, neg_pdo, idx, sdo, negframe>>

\* line 556
NegPreOp ==
    /\ pc = "n_preop"
    /\ CallSetState(1, EC_STATE_PRE_OP, "n_rdcnt")
    /\ UNCHANGED <<rv, neg_pdo, idx, sdo, negframe>>

\* variant of CountMatches: the count read is not compared
CountMatches_any(p, current_num_objects) == current_num_objects >= 0

\* line 568
CountMatches(p, current_num_objects) == current_num_objects = num_mapped_objects(p)

\* lines 557-568: the result of set_state, then the read of the entry count
NegReadCount ==
    /\ pc = "n_rdcnt"
    /\ IF rv # 0
       THEN /\ NegReturn(0 - 1)
            /\ read_fault' = TRUE
       ELSE \E ok \in BOOLEAN :
               /\ read_fault' = (read_fault \/ ~ok)
               /\ pc' = IF ok /\ CountMatches(neg_pdo, od[neg_pdo].count)
                        THEN "n_rdent" ELSE "n_dis_assign"
               /\ UNCHANGED <<stack, rv, idx>>
    /\ UNCHANGED <<neg_pdo, od, sdo_log, od_prev, sslocals, negframe>>

\* variant of EntryMatches: every entry is compared with the first target entry
EntryMatches_first(p, i, current_object) == current_object = mapped_objects(p)[1]

\* line 572: entry i of the drive against entry i of the target list
EntryMatches(p, i, current_object) == current_object = mapped_objects(p)[i]

\* lines 570-586: one pass of the comparison loop
NegReadEntry ==
    /\ pc = "n_rdent"
    /\ \E ok \in BOOLEAN :
          /\ read_fault' = (read_fault \/ ~ok)
          /\ IF ok /\ EntryMatches(neg_pdo, idx + 1, od[neg_pdo].entries[idx + 1])
             THEN IF idx + 1 < od[neg_pdo].count
                  THEN /\ idx' = idx + 1
                       /\ UNCHANGED ctl
                  ELSE NegReturn(0)
             ELSE /\ pc' = "n_dis_assign"
                  /\ idx' = 0
                  /\ UNCHANGED <<stack, rv>>
    /\ UNCHANGED <<neg_pdo, od, sdo_log, od_prev, sslocals, negframe>>

\* one SDO write of the rewrite sequence: on success go to next, else return -1
NegWriteStep(object, sub, v, next) ==
    \E outcome \in SdoWriteOutcomes :
       /\ SdoWrite(object, sub, v, outcome)
       /\ IF outcome = "ok"
          THEN /\ pc' = next
               /\ UNCHANGED <<stack, rv, idx>>
          ELSE NegReturn(0 - 1)

\* variant of NegDisableAssign: the assignment is left as it is
NegDisableAssign_skip ==
    /\ pc = "n_dis_assign"
    /\ pc' = "n_dis_map"
    /\ sdo_log' = Append(sdo_log, <<pdo_assign_idx(neg_pdo), 0, 0>>)
    /\ UNCHANGED <<stack, rv, idx, od>>
    /\ UNCHANGED <<neg_pdo, read_fault, od_prev, sslocals, negframe>>

\* lines 589-595
NegDisableAssign ==
    /\ pc = "n_dis_assign"
    /\ NegWriteStep("assign", 0, 0, "n_dis_map")
    /\ UNCHANGED <<neg_pdo, read_fault, od_prev, sslocals, negframe>>

\* variant of NegDisableMap: the count is left as it is before the entries are written
NegDisableMap_skip ==
    /\ pc = "n_dis_map"
    /\ pc' = "n_wr"
    /\ UNCHANGED <<stack, rv, idx, od, sdo_log>>
    /\ UNCHANGED <<neg_pdo, read_fault, od_prev, sslocals, negframe>>

\* lines 597-603
NegDisableMap ==
    /\ pc = "n_dis_map"
    /\ NegWriteStep("map", 0, 0, "n_wr")
    /\ UNCHANGED <<neg_pdo, read_fault, od_prev, sslocals, negframe>>

\* lines 605-614: one pass of the loop
NegWriteEntry ==
    /\ pc = "n_wr"
    /\ \E outcome \in SdoWriteOutcomes :
          /\ SdoWrite("map", idx + 1, mapped_objects(neg_pdo)[idx + 1], outcome)
          /\ IF outcome = "ok"
             THEN /\ idx' = IF idx + 1 < num_mapped_objects(neg_pdo) THEN idx + 1 ELSE 0
                  /\ pc' = IF idx + 1 < num_mapped_objects(neg_pdo) THEN "n_wr" ELSE "n_en"
                  /\ UNCHANGED <<stack, rv>>
             ELSE NegReturn(0 - 1)
    /\ UNCHANGED <<neg_pdo, read_fault, od_prev, sslocals, negframe>>

\* variant of NegEnableMap: the count written is 0
NegEnableMap_zero ==
    /\ pc = "n_en"
    /\ NegWriteStep("map", 0, 0, "n_asg")
    /\ UNCHANGED <<neg_pdo, read_fault, od_prev, sslocals, negframe>>

\* lines 616-622
NegEnableMap ==
    /\ pc = "n_en"
    /\ NegWriteStep("map", 0, num_mapped_objects(neg_pdo), "n_asg")
    /\ UNCHANGED <<neg_pdo, read_fault, od_prev, sslocals, negframe>>

\* lines 624-630
NegRestoreAssign ==
    /\ pc = "n_asg"
    /\ NegWriteStep("assign", 0, original_assign_val, "n_ver")
    /\ UNCHANGED <<neg_pdo, read_fault, od_prev, sslocals, negframe>>

\* lines 632-648
NegVerify ==
    /\ pc = "n_ver"
    /\ \E ok \in BOOLEAN :
          /\ read_fault' = (read_fault \/ ~ok)
          /\ NegReturn(IF ok /\ od[neg_pdo].count = num_mapped_objects(neg_pdo)
                       THEN 0 ELSE 0 - 1)
    /\ UNCHANGED <<neg_pdo, od, sdo_log, od_prev, sslocals, negframe>>

Negotiate ==
    \/ NegPreOp \/ NegReadCount \/ NegReadEntry \/ NegDisableAssign \/ NegDisableMap
    \/ NegWriteEntry \/ NegEnableMap \/ NegRestoreAssign \/ NegVerify

\* ------------------------------------------------------------ negotiation alone
\* a caller that negotiates the same list MaxCalls times against one drive

MaxCalls == 2

InitNeg ==
    /\ InitProgram
    /\ pc = "h_call"
    /\ neg_pdo \in Pdos
    /\ od \in { [p \in Pdos |-> IF p = neg_pdo THEN c ELSE DefaultOd(p)] :
                 c \in OdContents(neg_pdo) }
    /\ od_prev = od[neg_pdo]

HarnessCall ==
    /\ pc = "h_call"
    /\ CallNegotiate(neg_pdo, "h_ret")
    /\ UNCHANGED <<rv, sslocals, negframe>>

HarnessReturn ==
    /\ pc = "h_ret"
    /\ prev_rv' = rv
    /\ calls' = calls + 1
    /\ pc' = IF calls + 1 < MaxCalls THEN "h_call" ELSE "h_done"
    /\ UNCHANGED <<stack, rv, neg_pdo, idx, sdo, sslocals, life, image, sizes, ec_state,
                   stage_log, param_failed, plant, cycside>>

\* negotiation asks for PRE-OP only, so the escalation steps of set_state never run
NextNeg == HarnessCall \/ HarnessReturn \/ Negotiate \/ SetStateRequest \/ SetStateCheck

SpecNeg == InitNeg /\ [][NextNeg]_vars

\* ------------------------------------------------------------ transport: process data

\* a drive that follows the CiA 402 power state machine: it leaves
\* NOT_READY by itself, and Shutdown (6), Switch On (7) and
\* Enable Operation (15) each take it one state further
DriveNext(state, controlword) ==
    CASE state = "NOT_READY" -> "SWITCH_ON_DISABLED"
      [] state = "SWITCH_ON_DISABLED" /\ controlword = 6 -> "READY_TO_SWITCH_ON"
      [] state = "READY_TO_SWITCH_ON" /\ controlword = 7 -> "SWITCHED_ON"
      [] state = "SWITCHED_ON" /\ controlword = 15 -> "OPERATION_ENABLED"
      [] OTHER -> state

\* the statusword such a drive reports in each state (the patterns of lines 92-99)
DriveStatusword(state) ==
    CASE state = "NOT_READY" -> 0
      [] state = "SWITCH_ON_DISABLED" -> 64
      [] state = "READY_TO_SWITCH_ON" -> 33
      [] state = "SWITCHED_ON" -> 35
      [] state = "OPERATION_ENABLED" -> 39

DriveImage(state) ==
    [statusword |-> DriveStatusword(state), position_actual_value |-> 0, velocity_actual_value |-> 0]

\* one ec_send_processdata / ec_receive_processdata pair. A drive of which nothing
\* is known answers with any input image, and the transport may note in its slave
\* table that slave 1 fell back to PRE-OP with the error flag. A drive that
\* follows the profile acts on the controlword of the frame just sent, and the
\* image received shows its state before or after that step
ProcessData ==
    IF drive = "any"
    THEN /\ inputs' \in InImages
         /\ ec_state' \in {ec_state, [ec_state EXCEPT ![1] = EC_STATE_PRE_OP + EC_STATE_ERROR]}
         /\ UNCHANGED plant
    ELSE /\ drive' = DriveNext(drive, outputs'.controlword)
         /\ cmd_log' = IF drive' # drive /\ drive # "NOT_READY"
                        THEN Append(cmd_log, outputs'.controlword)
                        ELSE cmd_log
         /\ inputs' \in {DriveImage(drive), DriveImage(drive')}
         /\ UNCHANGED ec_state

\* mapped sizes ec_config_map can leave in ec_slave[1].Obits / Ibits; with 0 bits
\* the pointer ec_slave[1].outputs / inputs stays null
MappedBits == {0, 8, 72}

\* ec_group[0].outputsWKC and inputsWKC for the one slave
outputsWKC == 1
inputsWKC == 1

is_slave_operational(i) == ec_state[i] % 16 = EC_STATE_OPERATIONAL

\* ------------------------------------------------------------ initialize_cia402_parameters

\* number of SDO transactions of the function: the write of 0x6060, seven
\* optional writes, the read of 0x6061
ParamSteps == 9

\* variant of ParamFatal: the failure of any write makes the function return -1
ParamFatal_every(step) == step + 1 < ParamSteps

\* the transaction whose failure makes the function return -1: the write of
\* 0x6060 (lines 162-165)
ParamFatal(step) == step = 0

\* the optional writes of lines 171-225
ParamOptional(step) == 0 < step /\ step + 1 < ParamSteps

\* lines 161-246, one transaction per step
InitParamStep ==
    /\ pc = "ip"
    /\ \E ok \in BOOLEAN :
          /\ IF ParamFatal(idx) /\ ~ok
             THEN /\ Return(0 - 1)
                  /\ idx' = 0
             ELSE IF idx + 1 < ParamSteps
                  THEN /\ idx' = idx + 1
                       /\ UNCHANGED ctl
                  ELSE /\ Return(0)
                       /\ idx' = 0
          /\ param_failed' = (param_failed \/ (ParamOptional(idx) /\ ~ok))
    /\ UNCHANGED <<sslocals, neg_pdo, sdo, life, image, sizes, ec_state, calls, prev_rv,
                   stage_log, plant, cycside>>

\* ------------------------------------------------------------ configure_somanet_pdo_mapping_enhanced

bringframe == <<life, image, sizes, ec_state, harness, plant, cycside>>

\* line 706
ConfigInit ==
    /\ pc = "cs_init"
    /\ CallSetState(1, EC_STATE_INIT, "cs_preop")
    /\ UNCHANGED <<rv, neg_pdo, idx, sdo, bringframe>>

\* lines 706-712
ConfigPreOp ==
    /\ pc = "cs_preop"
    /\ IF rv # 0
       THEN Return(0 - 1) /\ UNCHANGED sslocals
       ELSE CallSetState(1, EC_STATE_PRE_OP, "cs_probe") /\ UNCHANGED rv
    /\ UNCHANGED <<neg_pdo, idx, sdo, bringframe>>

\* lines 712-729: the probe read of 0x1C12:00, then the Rx negotiation
ConfigProbe ==
    /\ pc = "cs_probe"
    /\ IF rv # 0
       THEN Return(0 - 1) /\ UNCHANGED <<neg_pdo, idx, sdo>>
       ELSE \E ok \in BOOLEAN :
               IF ok THEN CallNegotiate("rx", "cs_tx") /\ UNCHANGED rv
               ELSE Return(0) /\ UNCHANGED <<neg_pdo, idx, sdo>>
    /\ UNCHANGED <<sslocals, bringframe>>

\* lines 729-733
ConfigTx ==
    /\ pc = "cs_tx"
    /\ CallNegotiate("tx", "cs_done")
    /\ UNCHANGED <<rv, sslocals, bringframe>>

\* lines 734-739
ConfigDone ==
    /\ pc = "cs_done"
    /\ Return(0)
    /\ UNCHANGED <<sslocals, neg_pdo, idx, sdo, bringframe>>

ConfigureMapping == ConfigInit \/ ConfigPreOp \/ ConfigProbe \/ ConfigTx \/ ConfigDone

\* ------------------------------------------------------------ soem_interface_init_enhanced

\* the caller calls bring-up, once
ApiBringUp ==
    /\ pc = "boot"
    /\ Call("b_init", "bu_ret")
    /\ UNCHANGED <<rv, sslocals, neg_pdo, idx, sdo, bringframe>>

\* lines 752-769: ec_init and ec_config_init
BringInit ==
    /\ pc = "b_init"
    /\ \E found \in BOOLEAN :
          IF found
          THEN /\ pc' = "b_pdo"
               /\ \E s \in {EC_STATE_INIT, EC_STATE_PRE_OP} : ec_state' = [i \in 0..1 |-> s]
               /\ UNCHANGED <<stack, rv>>
          ELSE /\ Return(0 - 1)
               /\ UNCHANGED ec_state
    /\ UNCHANGED <<sslocals, neg_pdo, idx, sdo, life, image, sizes, harness, plant, cycside>>

\* line 783
BringConfigure ==
    /\ pc = "b_pdo"
    /\ Call("cs_init", "b_map")
    /\ stage_log' = Append(stage_log, "pdo")
    /\ UNCHANGED <<rv, sslocals, neg_pdo, idx, sdo, life, image, sizes, ec_state,
                   calls, prev_rv, param_failed, plant, cycside>>

\* lines 783-795: ec_configdc and ec_config_map
BringMap ==
    /\ pc = "b_map"
    /\ \E ob \in MappedBits, ib \in MappedBits :
          /\ Obits' = ob
          /\ Ibits' = ib
          /\ IF ob + ib = 0
             THEN Return(0 - 1) /\ UNCHANGED stage_log
             ELSE /\ pc' = "b_size"
                  /\ stage_log' = Append(stage_log, "iomap")
                  /\ UNCHANGED <<stack, rv>>
    /\ od' = OdMapped
    /\ sdo_log' = <<>>
    /\ read_fault' = FALSE
    /\ od_prev' = OdMapped["rx"]
    /\ UNCHANGED <<sslocals, neg_pdo, idx, life, image, expectedWKC, ec_state,
                   calls, prev_rv, param_failed, plant, cycside>>

\* variant of SizeOk: any mapped size is accepted
SizeOk_anysize(bits) == bits > 0

\* the tests of lines 805-807 and 821-823
SizeOk(bits) == bits > 0 /\ bits \div 8 >= target_pdo_bytes

\* variant of BringSizes: the parameter writes are left out
BringSizes_noparams ==
    /\ pc = "b_size"
    /\ somanet_outputs' = SizeOk(Obits)
    /\ somanet_inputs' = (SizeOk(Obits) /\ SizeOk(Ibits))
    /\ IF SizeOk(Obits) /\ SizeOk(Ibits)
       THEN /\ expectedWKC' = (outputsWKC * 2) + inputsWKC
            /\ pc' = "b_safe"
            /\ stage_log' = Append(stage_log, "sizes")
            /\ UNCHANGED <<stack, rv>>
       ELSE /\ Return(0 - 1)
            /\ UNCHANGED <<expectedWKC, stage_log>>
    /\ UNCHANGED <<sslocals, neg_pdo, idx, sdo, life, outputs, inputs, Obits, Ibits,
                   ec_state, calls, prev_rv, param_failed, plant, cycside>>

\* lines 804-841
BringSizes ==
    /\ pc = "b_size"
    /\ somanet_outputs' = SizeOk(Obits)
    /\ somanet_inputs' = (SizeOk(Obits) /\ SizeOk(Ibits))
    /\ IF SizeOk(Obits) /\ SizeOk(Ibits)
       THEN /\ expectedWKC' = (outputsWKC * 2) + inputsWKC
            /\ Call("ip", "b_safe")
            /\ stage_log' = Append(Append(stage_log, "sizes"), "params")
            /\ UNCHANGED rv
       ELSE /\ Return(0 - 1)
            /\ UNCHANGED <<expectedWKC, stage_log>>
    /\ UNCHANGED <<sslocals, neg_pdo, idx, sdo, life, outputs, inputs, Obits, Ibits,
                   ec_state, calls, prev_rv, param_failed, plant, cycside>>

\* lines 841-854: the result of the parameter writes is not used
BringSafeValues ==
    /\ pc = "b_safe"
    /\ outputs' = IF somanet_outputs
                  THEN [outputs EXCEPT !.controlword = 6, !.modes_of_operation = 4]
                  ELSE outputs
    /\ CallSetState(1, EC_STATE_SAFE_OP, "b_burst")
    /\ stage_log' = Append(stage_log, "safeop")
    /\ UNCHANGED <<rv, neg_pdo, idx, sdo, life, somanet_outputs, somanet_inputs, inputs,
                   sizes, ec_state, calls, prev_rv, param_failed, plant, cycside>>

\* number of exchanges of the loop of line 865
wd_cycles_max == 10

\* lines 854-862
BringFirstExchange ==
    /\ pc = "b_burst"
    /\ IF rv # 0
       THEN Return(0 - 1) /\ UNCHANGED <<inputs, ec_state, plant, stage_log>>
       ELSE /\ ProcessData
            /\ pc' = "b_wd"
            /\ stage_log' = Append(stage_log, "burst")
            /\ UNCHANGED <<stack, rv>>
    /\ UNCHANGED <<sslocals, neg_pdo, idx, sdo, life, somanet_outputs, somanet_inputs,
                   outputs, sizes, calls, prev_rv, param_failed, cycside>>

\* lines 865-869: one pass of the loop
BringBurst ==
    /\ pc = "b_wd"
    /\ ProcessData
    /\ idx' = IF idx + 1 < wd_cycles_max THEN idx + 1 ELSE 0
    /\ pc' = IF idx + 1 < wd_cycles_max THEN "b_wd" ELSE "b_op"
    /\ UNCHANGED <<stack, rv, sslocals, neg_pdo, sdo, life, somanet_outputs, somanet_inputs,
                   outputs, sizes, harness, cycside>>

\* line 873
BringOperational ==
    /\ pc = "b_op"
    /\ CallSetState(1, EC_STATE_OPERATIONAL, "b_verify")
    /\ stage_log' = Append(stage_log, "op")
    /\ UNCHANGED <<rv, neg_pdo, idx, sdo, life, image, sizes, ec_state,
                   calls, prev_rv, param_failed, plant, cycside>>

\* lines 873-884
BringVerify ==
    /\ pc = "b_verify"
    /\ IF rv = 0 /\ is_slave_operational(1)
       THEN /\ pc' = "b_start"
            /\ stage_log' = Append(stage_log, "verify")
            /\ UNCHANGED <<stack, rv>>
       ELSE Return(0 - 1) /\ UNCHANGED stage_log
    /\ UNCHANGED <<sslocals, neg_pdo, idx, sdo, life, image, sizes, ec_state,
                   calls, prev_rv, param_failed, plant, cycside>>

\* lines 888-895: pthread_create can fail
BringStartThread ==
    /\ pc = "b_start"
    /\ master_initialized' = 1
    /\ ecat_thread_running' = 1
    /\ \E created \in BOOLEAN :
          IF created
          THEN /\ cyc' = "c_wait"
               /\ pc' = "b_after"
               /\ stage_log' = Append(stage_log, "thread")
               /\ UNCHANGED <<stack, rv>>
          ELSE /\ Return(0 - 1)
               /\ UNCHANGED <<cyc, stage_log>>
    /\ UNCHANGED <<sslocals, neg_pdo, idx, sdo, image, sizes, ec_state, calls, prev_rv,
                   param_failed, plant,
                   mutex, register, cyclocals, wkc>>

\* lines 897-908
BringVerifyAfterStart ==
    /\ pc = "b_after"
    /\ Return(IF is_slave_operational(1) THEN 0 ELSE 0 - 1)
    /\ UNCHANGED <<sslocals, neg_pdo, idx, sdo, bringframe>>

\* bring-up has returned rv to its caller
ApiBringUpReturn ==
    /\ pc = "bu_ret"
    /\ pc' = "ctl_idle"
    /\ rv' = 0
    /\ param_failed' = FALSE
    /\ UNCHANGED <<stack, sslocals, neg_pdo, idx, sdo, life, image, sizes, ec_state,
                   calls, prev_rv, stage_log, plant, cycside>>

BringUp ==
    \/ ApiBringUp \/ BringInit \/ BringConfigure \/ BringMap \/ BringSizes
    \/ BringSafeValues \/ BringFirstExchange \/ BringBurst \/ BringOperational
    \/ BringVerify \/ BringStartThread \/ BringVerifyAfterStart \/ ApiBringUpReturn
    \/ InitParamStep \/ ConfigureMapping

\* ------------------------------------------------------------ soem_interface_stop_master

\* lines 947-950
ApiStop ==
    /\ pc = "ctl_idle"
    /\ IF master_initialized = 0
       THEN UNCHANGED <<pc, ecat_thread_running>>
       ELSE /\ ecat_thread_running' = 0
            /\ pc' = "s_join"
    /\ UNCHANGED <<stack, rv, master_initialized, sslocals, neg_pdo, idx, sdo, image, sizes,
                   ec_state, harness, plant, cycside>>

\* variant of StopJoin: shutdown goes on without waiting for ecat_loop
StopJoin_nowait ==
    /\ pc = "s_join"
    /\ pc' = "s_safe"
    /\ UNCHANGED <<stack, rv, sslocals, neg_pdo, idx, sdo, bringframe>>

\* lines 951-953: pthread_join returns once ecat_loop has returned
StopJoin ==
    /\ pc = "s_join"
    /\ cyc \in {"none", "exited"}
    /\ pc' = "s_safe"
    /\ UNCHANGED <<stack, rv, sslocals, neg_pdo, idx, sdo, bringframe>>

\* variant of StopSafeOutputs: the image is sent as the loop left it
StopSafeOutputs_asleft ==
    /\ pc = "s_safe"
    /\ pc' = "s_so"
    /\ UNCHANGED <<stack, rv, sslocals, neg_pdo, idx, sdo, bringframe>>

\* lines 955-962: the safe output image and ec_send_processdata
StopSafeOutputs ==
    /\ pc = "s_safe"
    /\ outputs' = IF somanet_outputs
                  THEN [outputs EXCEPT !.target_torque = 0, !.controlword = 6]
                  ELSE outputs
    /\ pc' = "s_so"
    /\ UNCHANGED <<stack, rv, sslocals, neg_pdo, idx, sdo, life, somanet_outputs,
                   somanet_inputs, inputs, sizes, ec_state, harness, plant, cycside>>

\* line 965
StopSafeOp ==
    /\ pc = "s_so"
    /\ CallSetState(0, EC_STATE_SAFE_OP, "s_init")
    /\ UNCHANGED <<rv, neg_pdo, idx, sdo, bringframe>>

\* line 966
StopInit ==
    /\ pc = "s_init"
    /\ CallSetState(0, EC_STATE_INIT, "s_close")
    /\ UNCHANGED <<rv, neg_pdo, idx, sdo, bringframe>>

\* lines 968-971: ec_close
StopClose ==
    /\ pc = "s_close"
    /\ master_initialized' = 0
    /\ pc' = "ctl_idle"
    /\ rv' = 0
    /\ UNCHANGED <<stack, ecat_thread_running, sslocals, neg_pdo, idx, sdo, image, sizes,
                   ec_state, harness, plant, cycside>>

StopMaster == ApiStop \/ StopJoin \/ StopSafeOutputs \/ StopSafeOp \/ StopInit \/ StopClose

\* ------------------------------------------------------------ set_target_torque, telemetry

apiframe == <<stack, rv, life, sslocals, neg_pdo, idx, sdo, image, sizes, ec_state, harness, plant,
              cyc, cyclocals, wkc>>

\* soem_interface_send_and_receive_pdo, lines 911-913
SetTorqueLock ==
    /\ pc = "ctl_idle"
    /\ IF master_initialized = 0
       THEN UNCHANGED <<pc, mutex>>
       ELSE /\ mutex = "none"
            /\ mutex' = "ctl"
            /\ pc' = "sp_locked"
    /\ UNCHANGED <<register, apiframe>>

\* variant of SetTorqueWrite: the setter also clears the stored statusword
SetTorqueWrite_cross ==
    /\ pc = "sp_locked"
    /\ target_torque_f' \in TorqueInputs
    /\ current_statusword' = 0
    /\ mutex' = "none"
    /\ pc' = "ctl_idle"
    /\ UNCHANGED <<communication_ok, current_position_f, current_velocity_f,
                   current_cia402_state, current_controlword, apiframe>>

\* lines 914-915
SetTorqueWrite ==
    /\ pc = "sp_locked"
    /\ target_torque_f' \in TorqueInputs
    /\ mutex' = "none"
    /\ pc' = "ctl_idle"
    /\ UNCHANGED <<communication_ok, current_position_f, current_velocity_f,
                   current_cia402_state, current_statusword, current_controlword, apiframe>>

\* soem_interface_get_current_position and _get_current_velocity: lock
GetTelemetryLock ==
    /\ pc = "ctl_idle"
    /\ mutex = "none"
    /\ mutex' = "ctl"
    /\ pc' = "get_locked"
    /\ UNCHANGED <<register, apiframe>>

\* read the field into the local, unlock, return it
GetTelemetryRead ==
    /\ pc = "get_locked"
    /\ mutex' = "none"
    /\ pc' = "ctl_idle"
    /\ UNCHANGED <<register, apiframe>>

\* soem_interface_get_communication_status, _get_cia402_state, _get_statusword:
\* one read of the field, without the lock
GetUnlocked ==
    /\ pc = "ctl_idle"
    /\ UNCHANGED vars

ControlApi ==
    \/ SetTorqueLock \/ SetTorqueWrite \/ GetTelemetryLock \/ GetTelemetryRead
    \/ GetUnlocked

\* ------------------------------------------------------------ ecat_loop

\* working counters ec_receive_processdata can return: one short, or full
WkcValues == {expectedWKC - 1, expectedWKC}

cycframe == <<ctl, life, sizes, sslocals, neg_pdo, idx, sdo, harness,
              somanet_outputs, somanet_inputs>>

\* lines 436-443
CycWaitInit ==
    /\ cyc = "c_wait"
    /\ cyc' = IF master_initialized = 0 /\ ecat_thread_running # 0 THEN "c_wait"
              ELSE IF master_initialized = 0 THEN "exited" ELSE "c_head"
    /\ UNCHANGED <<mutex, register, cyclocals, wkc, outputs, inputs, ec_state, cycframe, plant>>

\* variant of CycLoopHead: the run flag is not tested
CycLoopHead_noflag ==
    /\ cyc = "c_head"
    /\ cyc' = "c_lock1"
    /\ UNCHANGED <<mutex, register, cyclocals, wkc, outputs, inputs, ec_state, cycframe, plant>>

\* line 447
CycLoopHead ==
    /\ cyc = "c_head"
    /\ cyc' = IF ecat_thread_running # 0 THEN "c_lock1" ELSE "exited"
    /\ UNCHANGED <<mutex, register, cyclocals, wkc, outputs, inputs, ec_state, cycframe, plant>>

\* line 449
CycLockOut ==
    /\ cyc = "c_lock1"
    /\ mutex = "none"
    /\ mutex' = "cyc"
    /\ cyc' = "c_out"
    /\ UNCHANGED <<register, cyclocals, wkc, outputs, inputs, ec_state, cycframe, plant>>

\* variant of LoopTorque: the setpoint is written whatever the state
LoopTorque_always == TorqueField(target_torque_f)

\* variant of LoopTorque: the setpoint is withheld only in FAULT
LoopTorque_unlessfault ==
    IF current_cia402_state # "FAULT" THEN TorqueField(target_torque_f) ELSE {0}

\* lines 452-456: the values the loop may store in the torque field
LoopTorque ==
    IF current_cia402_state = "OPERATION_ENABLED" THEN TorqueField(target_torque_f) ELSE {0}

\* lines 450-462
CycWriteOutputs ==
    /\ cyc = "c_out"
    /\ IF somanet_outputs
       THEN \E t \in LoopTorque :
               outputs' = [controlword |-> current_controlword, modes_of_operation |-> 4,
                           target_torque |-> t]
       ELSE UNCHANGED outputs
    /\ mutex' = "none"
    /\ cyc' = "c_xchg"
    /\ UNCHANGED <<register, cyclocals, wkc, inputs, ec_state, cycframe, plant>>

\* lines 465-466
CycExchange ==
    /\ cyc = "c_xchg"
    /\ ProcessData
    /\ wkc' \in WkcValues
    /\ cyc' = "c_class"
    /\ UNCHANGED <<mutex, register, cyclocals, outputs, cycframe>>

\* variant of WkcOk: every working counter is accepted
WkcOk_always == wkc >= 0

\* variant of WkcOk: strict comparison
WkcOk_strict == wkc > expectedWKC

\* the test of line 474
WkcOk == wkc >= expectedWKC

\* lines 468-475 and 496-498
CycClassify ==
    /\ cyc = "c_class"
    /\ communication_ok' = IF WkcOk THEN 1 ELSE 0
    /\ cyc' = IF WkcOk THEN "c_lock2" ELSE "c_chk"
    /\ UNCHANGED <<mutex, target_torque_f, current_position_f, current_velocity_f,
                   current_cia402_state, current_statusword, current_controlword,
                   cyclocals, wkc, outputs, inputs, ec_state, cycframe, plant>>

\* line 478
CycLockIn ==
    /\ cyc = "c_lock2"
    /\ mutex = "none"
    /\ mutex' = "cyc"
    /\ cyc' = "c_in1"
    /\ UNCHANGED <<register, cyclocals, wkc, outputs, inputs, ec_state, cycframe, plant>>

\* line 480
CycReadStatusword ==
    /\ cyc = "c_in1"
    /\ current_statusword' = IF somanet_inputs THEN inputs.statusword ELSE current_statusword
    /\ cyc' = "c_in2"
    /\ UNCHANGED <<mutex, communication_ok, target_torque_f, current_position_f,
                   current_velocity_f, current_cia402_state, current_controlword,
                   cyclocals, wkc, outputs, inputs, ec_state, cycframe, plant>>

\* lines 481-485
CycReadTelemetry ==
    /\ cyc = "c_in2"
    /\ IF somanet_inputs
       THEN /\ current_cia402_state' = get_cia402_state(current_statusword)
            /\ current_position_f' = inputs.position_actual_value
            /\ current_velocity_f' = inputs.velocity_actual_value
       ELSE UNCHANGED <<current_cia402_state, current_position_f, current_velocity_f>>
    /\ mutex' = "none"
    /\ cyc' = "c_smi"
    /\ UNCHANGED <<communication_ok, target_torque_f, current_statusword,
                   current_controlword, cyclocals, wkc, outputs, inputs, ec_state, cycframe, plant>>

\* variant of CallsPerform: the flag of line 432 is not consulted
CallsPerform_noflag == somanet_inputs /\ somanet_outputs

\* line 488: whether this tick calls perform_cia402_transition_to_operational
CallsPerform == state_machine_initialized = 0 /\ somanet_inputs /\ somanet_outputs

\* lines 487-489
CycStateMachineOnce ==
    /\ cyc = "c_smi"
    /\ IF CallsPerform
       THEN /\ cyc' = "p_rd"
            /\ attempt' = 0
            /\ perform_invoked' = TRUE
       ELSE /\ cyc' = "c_chk"
            /\ UNCHANGED <<attempt, perform_invoked>>
    /\ UNCHANGED <<mutex, register, state_machine_initialized, wkc, outputs, inputs,
                   ec_state, cycframe, plant>>

\* lines 364-367 (somanet_inputs is set whenever perform is called)
PerformReadStatusword ==
    /\ cyc = "p_rd"
    /\ current_statusword' = inputs.statusword
    /\ cyc' = "p_dec"
    /\ UNCHANGED <<mutex, communication_ok, target_torque_f, current_position_f,
                   current_velocity_f, current_cia402_state, current_controlword,
                   cyclocals, wkc, outputs, inputs, ec_state, cycframe, plant>>

\* variant of MoreAttempts: the loop gives up one attempt early
MoreAttempts_short == attempt + 2 < max_attempts

\* lines 421 and 364: attempt++ and the loop test, seen before the increment
MoreAttempts == attempt + 1 < max_attempts

\* lines 373-423 and the loop test of line 364: decode; on OPERATION_ENABLED
\* perform returns 0 and line 490 sets the flag; otherwise the controlword is
\* stored and applied and process data is exchanged, and after max_attempts
\* perform returns -1 and ecat_loop leaves state_machine_initialized at 0
PerformStep ==
    /\ cyc = "p_dec"
    /\ current_cia402_state' = get_cia402_state(current_statusword)
    /\ IF current_cia402_state' = "OPERATION_ENABLED"
       THEN /\ state_machine_initialized' = 1
            /\ cyc' = "c_chk"
            /\ attempt' = 0
            /\ UNCHANGED <<current_controlword, outputs, inputs, ec_state, wkc, plant>>
       ELSE /\ current_controlword' = TransitionControlword(current_cia402_state')
            /\ outputs' = [outputs EXCEPT !.controlword = current_controlword']
            /\ ProcessData
            /\ wkc' \in WkcValues
            /\ IF MoreAttempts
               THEN /\ attempt' = attempt + 1
                    /\ cyc' = "p_rd"
               ELSE /\ attempt' = 0
                    /\ cyc' = "c_chk"
            /\ UNCHANGED state_machine_initialized
    /\ UNCHANGED <<mutex, communication_ok, target_torque_f, current_position_f,
                   current_velocity_f, current_statusword, perform_invoked, cycframe>>

\* lines 500-505
CycCheckSlave ==
    /\ cyc = "c_chk"
    /\ IF ~is_slave_operational(1)
       THEN \E observed \in StateCheckResults(EC_STATE_OPERATIONAL) :
               ec_state' = [ec_state EXCEPT ![1] = observed]
       ELSE UNCHANGED ec_state
    /\ cyc' = "c_head"
    /\ UNCHANGED <<mutex, register, cyclocals, wkc, outputs, inputs, cycframe, plant>>

CyclicThread ==
    \/ CycWaitInit \/ CycLoopHead \/ CycLockOut \/ CycWriteOutputs \/ CycExchange
    \/ CycClassify \/ CycLockIn \/ CycReadStatusword \/ CycReadTelemetry
    \/ CycStateMachineOnce \/ PerformReadStatusword \/ PerformStep
    \/ CycCheckSlave

\* ------------------------------------------------------------ get_cia402_state alone
\* a caller that decodes one statusword: any value a uint16_t can hold

StatuswordMax == 2 ^ 16 - 1

InitDecode ==
    /\ cyc = "d_call"
    /\ current_statusword \in 0..StatuswordMax
    /\ pc = "boot"
    /\ stack = <<>>
    /\ rv = 0
    /\ mutex = "none"
    /\ ecat_thread_running = 0
    /\ master_initialized = 0
    /\ communication_ok = 0
    /\ target_torque_f = 0
    /\ current_position_f = 0
    /\ current_velocity_f = 0
    /\ current_cia402_state = "NOT_READY"
    /\ current_controlword = 0
    /\ wkc = 0
    /\ expectedWKC = 0
    /\ state_machine_initialized = 0
    /\ attempt = 0
    /\ somanet_outputs = FALSE
    /\ somanet_inputs = FALSE
    /\ outputs = [controlword |-> 0, modes_of_operation |-> 0, target_torque |-> 0]
    /\ inputs = [statusword |-> 0, position_actual_value |-> 0, velocity_actual_value |-> 0]
    /\ ec_state = [i \in 0..1 |-> EC_STATE_NONE]
    /\ Obits = 0
    /\ Ibits = 0
    /\ ss_slave = 0
    /\ desired_state = EC_STATE_NONE
    /\ retry_count = 0
    /\ ss_log = <<>>
    /\ ss_stuck = TRUE
    /\ neg_pdo = "rx"
    /\ idx = 0
    /\ od = [p \in Pdos |-> DefaultOd(p)]
    /\ sdo_log = <<>>
    /\ perform_invoked = FALSE
    /\ read_fault = FALSE
    /\ od_prev = od["rx"]
    /\ drive = "any"
    /\ cmd_log = <<>>
    /\ stage_log = <<>>
    /\ param_failed = FALSE
    /\ calls = 0
    /\ prev_rv = 0

\* current_cia402_state = get_cia402_state(current_statusword), as in lines 373 and 481
Decode ==
    /\ cyc = "d_call"
    /\ current_cia402_state' = get_cia402_state(current_statusword)
    /\ cyc' = "d_ret"
    /\ UNCHANGED <<mutex, communication_ok, target_torque_f,
                   current_position_f, current_velocity_f, current_statusword,
                   current_controlword, cyclocals, wkc, outputs, inputs, ec_state,
                   cycframe, plant>>

NextDecode == Decode

SpecDecode == InitDecode /\ [][NextDecode]_vars

\* ------------------------------------------------------------ perform alone
\* ecat_loop at its call of perform_cia402_transition_to_operational (line 489):
\* the master runs, the last exchange was good, the input image has been read,
\* and the drive is either one of which nothing is known or a drive that follows
\* the profile and has just been powered

\* statuswords of the first image: the eight listed patterns, 0x0237 and 0x0250
\* (listed patterns with higher bits set), and the unlisted patterns 0x48 and 0x20
StatuswordSamples == {0, 64, 33, 35, 39, 7, 15, 8, 567, 592, 72, 32}

InitPerform ==
    /\ cyc = "p_rd"
    /\ drive \in {"any", "NOT_READY"}
    /\ inputs \in IF drive = "any"
                  THEN { [statusword |-> w, position_actual_value |-> 0,
                          velocity_actual_value |-> 0] : w \in StatuswordSamples }
                  ELSE { DriveImage(drive) }
    /\ cmd_log = <<>>
    /\ pc = "running"
    /\ stack = <<>>
    /\ rv = 0
    /\ mutex = "none"
    /\ ecat_thread_running = 1
    /\ master_initialized = 1
    /\ communication_ok = 1
    /\ target_torque_f = 0
    /\ current_position_f = inputs.position_actual_value
    /\ current_velocity_f = inputs.velocity_actual_value
    /\ current_statusword = inputs.statusword
    /\ current_cia402_state = get_cia402_state(current_statusword)
    /\ current_controlword = 0
    /\ expectedWKC = outputsWKC * 2 + inputsWKC
    /\ wkc = expectedWKC
    /\ state_machine_initialized = 0
    /\ attempt = 0
    /\ somanet_outputs = TRUE
    /\ somanet_inputs = TRUE
    /\ outputs = [controlword |-> 0, modes_of_operation |-> 4, target_torque |-> 0]
    /\ ec_state = [i \in 0..1 |-> EC_STATE_OPERATIONAL]
    /\ Obits \in {b \in MappedBits : b \div 8 >= target_pdo_bytes}
    /\ Ibits \in {b \in MappedBits : b \div 8 >= target_pdo_bytes}
    /\ ss_slave = 0
    /\ desired_state = EC_STATE_NONE
    /\ retry_count = 0
    /\ ss_log = <<>>
    /\ ss_stuck = TRUE
    /\ neg_pdo = "rx"
    /\ idx = 0
    /\ od = OdMapped
    /\ sdo_log = <<>>
    /\ perform_invoked = TRUE
    /\ read_fault = FALSE
    /\ od_prev = od["rx"]
    /\ stage_log = <<"pdo", "iomap", "sizes", "params", "safeop", "burst", "op", "verify",
                     "thread">>
    /\ param_failed = FALSE
    /\ calls = 0
    /\ prev_rv = 0

NextPerform == PerformReadStatusword \/ PerformStep

SpecPerform == InitPerform /\ [][NextPerform]_vars

\* the cyclic thread is scheduled: perform runs on until it returns
SpecPerformLive == SpecPerform /\ WF_vars(NextPerform)

\* ------------------------------------------------------------ the running system and a stop
\* soem_interface_init_enhanced has returned 0 (line 908): the thread has been
\* created and may not have run yet; the caller's next call is
\* soem_interface_stop_master, made at any moment

InitStop ==
    /\ cyc = "c_wait"
    /\ pc = "ctl_idle"
    /\ stack = <<>>
    /\ rv = 0
    /\ mutex = "none"
    /\ ecat_thread_running = 1
    /\ master_initialized = 1
    /\ communication_ok = 0
    /\ target_torque_f = 0
    /\ current_position_f = 0
    /\ current_velocity_f = 0
    /\ current_statusword = 0
    /\ current_cia402_state = "NOT_READY"
    /\ current_controlword = 0
    /\ expectedWKC = outputsWKC * 2 + inputsWKC
    /\ wkc = 0
    /\ state_machine_initialized = 0
    /\ attempt = 0
    /\ somanet_outputs = TRUE
    /\ somanet_inputs = TRUE
    /\ outputs = [controlword |-> 6, modes_of_operation |-> 4, target_torque |-> 0]
    /\ inputs \in InImages
    /\ ec_state = [i \in 0..1 |-> EC_STATE_OPERATIONAL]
    /\ Obits \in {b \in MappedBits : b \div 8 >= target_pdo_bytes}
    /\ Ibits \in {b \in MappedBits : b \div 8 >= target_pdo_bytes}
    /\ ss_slave = 1
    /\ desired_state = EC_STATE_OPERATIONAL
    /\ retry_count = 0
    /\ ss_log = <<>>
    /\ ss_stuck = TRUE
    /\ neg_pdo = "tx"
    /\ idx = 0
    /\ od = OdMapped
    /\ sdo_log = <<>>
    /\ perform_invoked = FALSE
    /\ read_fault = FALSE
    /\ od_prev = OdMapped["rx"]
    /\ drive = "any"
    /\ cmd_log = <<>>
    /\ stage_log = <<"pdo", "iomap", "sizes", "params", "safeop", "burst", "op", "verify",
                     "thread">>
    /\ param_failed = FALSE
    /\ calls = 0
    /\ prev_rv = 0

NextStop == ApiStop \/ StopJoin \/ CyclicThread

SpecStop == InitStop /\ [][NextStop]_vars

\* the cyclic thread is scheduled, and a join whose thread has returned returns
SpecStopLive == SpecStop /\ WF_vars(CyclicThread) /\ WF_vars(StopJoin)

\* ------------------------------------------------------------ the system

Next == BringUp \/ SetState \/ Negotiate \/ StopMaster \/ ControlApi \/ CyclicThread

Spec == Init /\ [][Next]_vars


\* ------------------------------------------------------------ properties: the cyclic loop

\* the cyclic thread exists and has not returned from ecat_loop
ThreadAlive == cyc \notin {"none", "exited"}

\* C1, as stated: in every state of the running system in which the register's
\* CiA 402 state is not OPERATION_ENABLED the torque field of the output image is 0
C1_TorqueZeroInEveryState ==
    (ThreadAlive /\ current_cia402_state # "OPERATION_ENABLED") => outputs.target_torque = 0

\* C1: every output image the cyclic thread sends while the register's CiA 402
\* state is not OPERATION_ENABLED carries torque 0, whatever the stored setpoint:
\* at the exchange of the loop (line 465) the torque field is 0 unless the state
\* is OPERATION_ENABLED, and throughout perform_cia402_transition_to_operational
\* (exchange of line 416) the torque field is 0
C1_TorqueZeroWhenSent ==
    /\ (cyc = "c_xchg" /\ current_cia402_state # "OPERATION_ENABLED")
          => outputs.target_torque = 0
    /\ cyc \in {"p_rd", "p_dec"} => outputs.target_torque = 0

\* the loop is about to send an image with a non-zero setpoint stored and the
\* drive not enabled
C1_Witness ==
    /\ cyc = "c_xchg"
    /\ somanet_outputs
    /\ current_cia402_state # "OPERATION_ENABLED"
    /\ target_torque_f # 0
    /\ outputs.target_torque = 0

C3_NoThreadOnFailure ==
    (pc = "bu_ret" /\ rv = 0 - 1) => ~ThreadAlive

\* C4, as stated: a step that writes a field of the shared register is taken by
\* a thread that holds pdo_mutex
C4_WritesUnderMutex ==
    [][(register' # register)
          => \/ (mutex = "cyc" /\ cyc' # cyc /\ pc' = pc)
             \/ (mutex = "ctl" /\ pc' # pc /\ cyc' = cyc)]_vars

\* C5, as stated: in every state in which the cyclic thread is outside its
\* critical section, so that the control thread can read the register, the stored
\* CiA 402 state is the decoding of the stored statusword
C5_StateIsDecodedStatusword ==
    (mutex # "cyc") => current_cia402_state = get_cia402_state(current_statusword)

\* C6: the classification step of a tick stores communication_ok = 0 when
\* wkc < expectedWKC and 1 when wkc >= expectedWKC, no other step of the tick
\* writes communication_ok, and the loop is left only at its head (line 447, or
\* line 440 before the first tick), never from the classification
C6_Classification ==
    [][/\ (cyc = "c_class" /\ cyc' # cyc)
          => /\ (wkc < expectedWKC => communication_ok' = 0 /\ cyc' = "c_chk")
             /\ (wkc >= expectedWKC => communication_ok' = 1)
       /\ (communication_ok' # communication_ok) => cyc = "c_class"
       /\ (cyc' = "exited" /\ cyc # "exited")
          => \/ (cyc = "c_head" /\ ecat_thread_running = 0)
             \/ (cyc = "c_wait" /\ master_initialized = 0)
       /\ (cyc = "c_chk" /\ cyc' # cyc) => cyc' = "c_head"]_vars

\* a degraded tick: the counter was short, the flag is 0 and the loop goes on
C6_Witness ==
    /\ cyc = "c_chk"
    /\ wkc < expectedWKC
    /\ communication_ok = 0
    /\ ecat_thread_running = 1

\* positions of the control thread whose step is a call of the transport: ec_init
\* and ec_config_init, ec_writestate and ec_statecheck, SDO reads and writes,
\* ec_configdc and ec_config_map, process data, ec_close
ControlTransportLabels ==
    {"b_init", "b_map", "b_burst", "b_wd", "ip", "cs_probe",
     "ss_req", "ss_chk", "ss_esc1", "ss_esc2", "ss_esc3", "ss_esc4",
     "n_rdcnt", "n_rdent", "n_dis_assign", "n_dis_map", "n_wr", "n_en", "n_asg", "n_ver",
     "s_safe", "s_close"}

\* C7: with bring-up called once, the control thread is at a transport call only
\* while no cyclic thread exists or after it has returned: bring-up makes its
\* transport calls before pthread_create, and shutdown clears
\* ecat_thread_running and joins before its own
C7_NoConcurrentTransport ==
    /\ pc \in ControlTransportLabels => ~ThreadAlive
    /\ pc \in {"s_safe", "s_so", "s_init", "s_close"} => ecat_thread_running = 0

\* shutdown is at its process-data send after a cyclic thread ran and was joined
C7_Witness ==
    /\ pc = "s_safe"
    /\ cyc = "exited"
    /\ perform_invoked

\* C8: a step of the control thread leaves statusword, position, velocity,
\* CiA 402 state and communication_ok alone, and the torque setpoint is changed
\* only by the write of set_target_torque (line 914), never by the cyclic thread
C8_SoleWriter ==
    [][/\ (<<current_statusword, current_position_f, current_velocity_f,
             current_cia402_state, communication_ok>>' #
           <<current_statusword, current_position_f, current_velocity_f,
             current_cia402_state, communication_ok>>)
          => (pc' = pc /\ cyc' # cyc)
       /\ (target_torque_f' # target_torque_f)
          => (pc = "sp_locked" /\ cyc' = cyc)]_vars

\* both sides have written their fields
C8_Witness ==
    /\ target_torque_f # 0
    /\ current_statusword # 0
    /\ current_position_f # 0
    /\ communication_ok = 1
    /\ pc = "ctl_idle"

\* ------------------------------------------------------------ properties: negotiation

\* the control thread is inside a negotiation that follows a successful one, or
\* has just returned from it
AfterSuccess ==
    /\ calls >= 1
    /\ prev_rv = 0
    /\ pc \notin {"h_call", "h_done"}

C10_PreviousOrTarget ==
    ActiveList(od[neg_pdo]) \in {ActiveList(od_prev), mapped_objects(neg_pdo)}

\* C10: the active mapping of a drive that stores the writes it acknowledges is
\* always the complete previous list, the empty list (mapping disabled, count 0)
\* or the complete target list, during a negotiation and after it, aborted or not
C10_PreviousEmptyOrTarget ==
    ActiveList(od[neg_pdo]) \in {ActiveList(od_prev), <<>>, mapped_objects(neg_pdo)}

\* in the middle of the rewrite of a list that was neither empty nor the target
C10_Witness ==
    /\ pc = "n_wr"
    /\ idx >= 1
    /\ od[neg_pdo].count = 0
    /\ ActiveList(od_prev) # <<>>
    /\ ActiveList(od_prev) # mapped_objects(neg_pdo)
    /\ od[neg_pdo].entries # od_prev.entries


\* number of SDO writes of a complete rewrite: two disables, the entries, the
\* enable and the restored assignment
RewriteWrites == num_mapped_objects(neg_pdo) + 4

\* C11, as stated: when a negotiation returns -1 after an SDO step of the
\* rewrite or the read-back failed, the mapping is disabled on the drive
\* (assignment count 0 or mapping count 0)
C11_FailureLeavesDisabled ==
    (pc = "h_ret" /\ rv = 0 - 1 /\ sdo_log # <<>>)
       => (od[neg_pdo].assign = 0 \/ od[neg_pdo].count = 0)

\* C11: when a negotiation returns -1 because the write that disables the
\* mapping object, an entry write or the write that enables the mapping failed,
\* the PDO assignment is left disabled on the drive (subindex 0 of the assignment
\* object is 0), and after a failed entry write the mapping count is 0 as well;
\* a failure of the first write leaves the previous mapping enabled, and a
\* failure of the read-back leaves the target mapping enabled
C11_FailureAfterDisable ==
    (pc = "h_ret" /\ rv = 0 - 1)
       => /\ Len(sdo_log) \in 2..(RewriteWrites - 1) => od[neg_pdo].assign = 0
          /\ Len(sdo_log) \in 3..(RewriteWrites - 2) => od[neg_pdo].count = 0

\* the first entry write failed on a drive whose assignment was enabled
C11_Witness ==
    /\ pc = "h_ret"
    /\ rv = 0 - 1
    /\ Len(sdo_log) = 3
    /\ od_prev.assign # 0
    /\ od_prev.count # 0
    /\ od[neg_pdo].assign = 0
    /\ od[neg_pdo].count = 0

\* the control thread is inside soem_interface_configure_pdo_mapping_enhanced
\* or one of its callees
InNegotiate ==
    \/ pc \in {"n_preop", "n_rdcnt", "n_rdent", "n_dis_assign", "n_dis_map", "n_wr",
               "n_en", "n_asg", "n_ver"}
    \/ \E i \in 1..Len(stack) : stack[i] = "n_rdcnt"

\* C12, as stated: no step of a negotiation asks the transport for a slave state
C12_NoStateRequest ==
    [][~(InNegotiate /\ pc = "ss_req" /\ pc' = "ss_chk")]_vars

\* C12: the only slave-state requests of a negotiation are requests for PRE-OP
\* to slave 1, made on entry before any SDO transaction (line 556), at most
\* max_retries of them; no other state is asked for
C12_OnlyPreOpOnEntry ==
    [][(InNegotiate /\ pc = "ss_req" /\ pc' = "ss_chk")
          => /\ ec_state'[1] = EC_STATE_PRE_OP
             /\ ec_state'[0] = ec_state[0]
             /\ sdo_log = <<>>
             /\ Head(stack) = "n_rdcnt"
             /\ retry_count < max_retries]_vars

\* the negotiation has asked for PRE-OP a second time
C12_Witness ==
    /\ InNegotiate
    /\ pc = "ss_chk"
    /\ retry_count = 1
    /\ ec_state[1] = EC_STATE_PRE_OP


\* ------------------------------------------------------------ properties: set_state

\* positions inside soem_interface_set_ethercat_state
SetStateLabels == {"ss_req", "ss_chk", "ss_esc1", "ss_esc2", "ss_esc3", "ss_esc4"}

\* the step returns from soem_interface_set_ethercat_state
SetStateReturns == pc \in SetStateLabels /\ pc' \notin SetStateLabels

\* number of requests for state st in the history of the call
Requested(st) == Cardinality({i \in 1..Len(ss_log) : ss_log[i] = st})

\* C13: every call of set_state returns; it never starts a sixth attempt; a poll
\* of line 310 that confirms the target state returns 0 at once; 0 is returned
\* only by such a poll or by the poll that ends an escalation (line 338); and -1
\* is returned only at the end of the fifth attempt, after five requests of the
\* target state (more when escalations re-requested it)
C13_AtMostFiveAttempts ==
    /\ [][/\ retry_count' < max_retries
          /\ (pc = "ss_chk" /\ pc' # pc /\ ec_state'[ss_slave] > 0
                 /\ ec_state'[ss_slave] % 16 = desired_state)
             => (SetStateReturns /\ rv' = 0)
          /\ (SetStateReturns /\ rv' = 0)
             => /\ pc \in {"ss_chk", "ss_esc4"}
                /\ ec_state'[ss_slave] > 0
                /\ pc = "ss_chk" => ec_state'[ss_slave] % 16 = desired_state
          /\ (SetStateReturns /\ rv' # 0)
             => /\ rv' = 0 - 1
                /\ retry_count = max_retries - 1
                /\ Requested(desired_state) >= max_retries
                /\ desired_state # EC_STATE_OPERATIONAL => Len(ss_log) = max_retries]_vars
    /\ <>(pc = "hs_ret")

\* the fifth attempt has made its request and no attempt was confirmed
C13_Witness ==
    /\ pc = "ss_chk"
    /\ retry_count = max_retries - 1
    /\ Len(ss_log) = max_retries

\* C14: in a call of set_state with target OPERATIONAL in which every poll reads
\* PRE-OP, the requests are OPERATIONAL, SAFE-OP once, OPERATIONAL once more and
\* no further one, all in the first attempt; in any call SAFE-OP is requested at
\* most once per attempt
C14_OneEscalationWhenStuck ==
    /\ (pc \in SetStateLabels /\ desired_state = EC_STATE_OPERATIONAL /\ ss_stuck)
          => /\ retry_count = 0
             /\ Len(ss_log) <= 3
             /\ ss_log = SubSeq(<<EC_STATE_OPERATIONAL, EC_STATE_SAFE_OP,
                                  EC_STATE_OPERATIONAL>>, 1, Len(ss_log))
    /\ pc \in SetStateLabels => Requested(EC_STATE_SAFE_OP) <= retry_count + 1

\* the slave has read PRE-OP at every poll and OPERATIONAL was requested again
C14_Witness ==
    /\ pc = "ss_esc4"
    /\ ss_stuck
    /\ ss_log = <<EC_STATE_OPERATIONAL, EC_STATE_SAFE_OP, EC_STATE_OPERATIONAL>>
    /\ ec_state[ss_slave] = EC_STATE_OPERATIONAL

\* ------------------------------------------------------------ properties: the decoder

\* bits 0-3 and bits 5-6 of a statusword, i.e. statusword & 0x6F by arithmetic
StateBits(w) == (w % 16) + 32 * ((w \div 32) % 4)

\* the state the table of the CiA 402 profile gives for those bits
TableState(m) ==
    IF m = 0 THEN "NOT_READY"
    ELSE IF m = 64 THEN "SWITCH_ON_DISABLED"
    ELSE IF m = 33 THEN "READY_TO_SWITCH_ON"
    ELSE IF m = 35 THEN "SWITCHED_ON"
    ELSE IF m = 39 THEN "OPERATION_ENABLED"
    ELSE IF m = 7 THEN "QUICK_STOP_ACTIVE"
    ELSE IF m = 15 THEN "FAULT_REACTION_ACTIVE"
    ELSE IF m = 8 THEN "FAULT"
    ELSE IF (m \div 8) % 2 = 1 THEN "FAULT"
    ELSE "NOT_READY"

\* C15: for every 16-bit statusword w the decoder returns a state, and that state
\* is the one the table gives for the bits 0x6F of w: the listed state for the
\* eight listed patterns, otherwise FAULT when bit 3 is set, otherwise NOT_READY.
\* The expected state is computed from w & 0x6F alone, so two statuswords that
\* agree on those bits decode alike.
C15_DecodeIsTable ==
    cyc = "d_ret" => current_cia402_state = TableState(StateBits(current_statusword))

\* an unlisted pattern with bit 3 set (0x8048) has been decoded, to FAULT
C15_Witness ==
    /\ cyc = "d_ret"
    /\ current_statusword = 32840
    /\ current_cia402_state = "FAULT"

\* ------------------------------------------------------------ properties: the drive-to-enabled phase

\* the command the planner of the specification gives for a decoded state
PlannedCommand(state) ==
    IF state = "FAULT" THEN 128
    ELSE IF state \in {"NOT_READY", "SWITCH_ON_DISABLED", "QUICK_STOP_ACTIVE"} THEN 6
    ELSE IF state = "READY_TO_SWITCH_ON" THEN 7
    ELSE IF state = "SWITCHED_ON" THEN 15
    ELSE 6

\* a step of perform that decodes the statusword it read
PerformDecodes == cyc = "p_dec" /\ cyc' # "p_dec"

\* C16: in every attempt of perform the controlword stored and written to the
\* output image is the planner's command for the state just decoded: 0x80 for
\* FAULT, 0x06 for NOT_READY, SWITCH_ON_DISABLED and QUICK_STOP_ACTIVE, 0x07 for
\* READY_TO_SWITCH_ON, 0x0F for SWITCHED_ON, 0x06 for any other state; on
\* OPERATION_ENABLED nothing is written or exchanged and perform returns.
C16_PlannedCommandEmitted ==
    [][PerformDecodes =>
         IF current_cia402_state' = "OPERATION_ENABLED"
         THEN /\ cyc' = "c_chk"
              /\ UNCHANGED <<current_controlword, outputs, inputs, wkc, ec_state>>
         ELSE /\ current_controlword' = PlannedCommand(current_cia402_state')
              /\ outputs'.controlword = PlannedCommand(current_cia402_state')]_vars

\* an attempt decoded SWITCHED_ON and Enable Operation went out
C16_Witness ==
    /\ cyc = "p_rd"
    /\ attempt >= 1
    /\ current_cia402_state = "SWITCHED_ON"
    /\ outputs.controlword = 15

\* the drive follows the profile
Compliant == drive # "any"

\* the commands of the canonical path, in order: Shutdown, Switch On, Enable Operation
CanonicalCommands == <<6, 7, 15>>

\* C17: against a drive that follows the profile from NOT_READY, one state per
\* accepted command, perform returns, and returns success, well inside its 50
\* attempts (at most 7 exchanges: a command may be sent twice, since the image
\* read may still show the state before the step); the commands that made the
\* drive change state are Shutdown, Switch On, Enable Operation, in that order.
C17_CompliantDriveEnabled ==
    /\ [](Compliant =>
            /\ cmd_log = SubSeq(CanonicalCommands, 1, Len(cmd_log))
            /\ attempt <= 7
            /\ attempt < max_attempts
            /\ cyc = "c_chk" => /\ state_machine_initialized = 1
                                /\ drive = "OPERATION_ENABLED"
                                /\ cmd_log = CanonicalCommands)
    /\ [](Compliant => <>(cyc = "c_chk" /\ state_machine_initialized = 1))

\* perform has returned success against such a drive after the three commands
C17_Witness ==
    /\ Compliant
    /\ cyc = "c_chk"
    /\ state_machine_initialized = 1
    /\ cmd_log = <<6, 7, 15>>

\* C18: perform always returns. An attempt that decodes OPERATION_ENABLED returns
\* success at once, with no write and no exchange; every other attempt writes its
\* controlword and makes one exchange, so the attempt counter is the number of
\* exchanges made; the 50th such attempt (counter 49) returns failure, and
\* failure is returned in no other way.
C18_PerformTerminates ==
    /\ [][PerformDecodes =>
            IF current_cia402_state' = "OPERATION_ENABLED"
            THEN /\ cyc' = "c_chk"
                 /\ state_machine_initialized' = 1
                 /\ UNCHANGED <<outputs, inputs, wkc>>
            ELSE /\ outputs'.controlword = current_controlword'
                 /\ wkc' \in WkcValues
                 /\ UNCHANGED state_machine_initialized
                 /\ IF attempt < 49
                    THEN attempt' = attempt + 1 /\ cyc' = "p_rd"
                    ELSE attempt = 49 /\ cyc' = "c_chk"]_vars
    /\ <>(cyc = "c_chk")

\* perform has returned failure: 50 attempts, the last of them read a fault
C18_Witness ==
    /\ cyc = "c_chk"
    /\ state_machine_initialized = 0
    /\ current_cia402_state = "FAULT"
    /\ outputs.controlword = 128

\* ------------------------------------------------------------ properties: bring-up

\* bring-up has returned success to its caller
BringUpSucceeded == pc = "bu_ret" /\ rv = 0

\* place of a stage in the history, 0 when it has not begun
StageIndex(name) ==
    IF \E i \in 1..Len(stage_log) : stage_log[i] = name
    THEN CHOOSE i \in 1..Len(stage_log) : stage_log[i] = name
    ELSE 0

\* stage a has begun and stage b has begun after it
Before(a, b) == 0 < StageIndex(a) /\ StageIndex(a) < StageIndex(b)

\* C19 as stated: in a successful bring-up the parameter writes come first, then
\* the PDO mapping, the I/O mapping with size validation, SAFE-OP, the burst,
\* OPERATIONAL, the verification, and the thread.
C19_ParametersFirst ==
    BringUpSucceeded =>
        /\ Before("params", "pdo")
        /\ Before("pdo", "iomap")
        /\ Before("iomap", "sizes")
        /\ Before("sizes", "safeop")
        /\ Before("safeop", "burst")
        /\ Before("burst", "op")
        /\ Before("op", "verify")
        /\ Before("verify", "thread")

\* C19 as the code runs: the stages begin in one fixed order, each at most once,
\* and a successful bring-up has begun all of them: PDO mapping, I/O mapping,
\* size validation, parameter writes, SAFE-OP, burst, OPERATIONAL, verification,
\* thread. The parameter writes come after the size validation and before SAFE-OP.
C19_PipelineOrder ==
    LET order == <<"pdo", "iomap", "sizes", "params", "safeop", "burst", "op", "verify",
                   "thread">>
    IN  /\ Len(stage_log) <= Len(order)
        /\ stage_log = SubSeq(order, 1, Len(stage_log))
        /\ BringUpSucceeded => stage_log = order
        /\ cyc # "none" => Before("verify", "thread")

\* a bring-up has succeeded, its parameter writes after the size validation
C19_Witness ==
    /\ BringUpSucceeded
    /\ Before("sizes", "params")
    /\ Before("params", "safeop")
    /\ cyc # "none"

\* the I/O mapping has been made and a mapped size is below 2 bytes
Undersized == StageIndex("iomap") > 0 /\ (Obits \div 8 < 2 \/ Ibits \div 8 < 2)

\* C20: when, after the I/O mapping, the mapped output or input size of the drive
\* is below 2 bytes, bring-up goes no further than the size validation: no
\* SAFE-OP and no OPERATIONAL request follows, no thread is created, and what
\* bring-up returns is failure.
C20_UndersizedMappingIsFatal ==
    Undersized =>
        /\ stage_log = <<"pdo", "iomap">>
        /\ Requested(EC_STATE_SAFE_OP) = 0
        /\ Requested(EC_STATE_OPERATIONAL) = 0
        /\ cyc = "none"
        /\ ecat_thread_running = 0
        /\ pc = "bu_ret" => rv = 0 - 1

\* bring-up has returned failure for a drive whose inputs map to one byte
C20_Witness ==
    /\ pc = "bu_ret"
    /\ rv = 0 - 1
    /\ Obits = 72
    /\ Ibits = 8
    /\ stage_log = <<"pdo", "iomap">>

\* ------------------------------------------------------------ properties: parameter writes

\* C21: a step of initialize_cia402_parameters that makes one of the seven optional
\* writes goes on to the next transaction of the function whether the write
\* failed or not, and changes nothing else that the program reads: the function
\* does not return, and no state of bring-up depends on the outcome of the
\* write. So bring-up ends as it would have ended had the write succeeded.
C21_OptionalWriteNeverFatal ==
    [][(pc = "ip" /\ ParamOptional(idx) /\ idx' # idx) =>
          /\ pc' = "ip"
          /\ idx' = idx + 1
          /\ UNCHANGED <<stack, rv, sslocals, neg_pdo, sdo, life, image, sizes, ec_state,
                         stage_log, plant, cycside>>]_vars

\* bring-up has returned success although an optional write failed
C21_Witness ==
    /\ pc = "bu_ret"
    /\ rv = 0
    /\ param_failed

\* ------------------------------------------------------------ properties: shutdown

\* bring-up created the cyclic thread
ThreadCreated == StageIndex("thread") > 0

\* soem_interface_stop_master has handed its output image to the transport:
\* it is past line 959, or has returned after ec_close
StopImageSent ==
    \/ pc \in {"s_so", "s_init", "s_close"}
    \/ pc \in SetStateLabels /\ stack # <<>> /\ Head(stack) \in {"s_init", "s_close"}
    \/ pc = "ctl_idle" /\ master_initialized = 0

\* C22: when a system whose cyclic thread was created is shut down, the output
\* image is written with controlword 0x06 and torque 0 after the thread has
\* exited and while the transport is still open, and from the moment that image
\* is sent the thread stays exited and the image stays as written.
C22_SafeImageAtShutdown ==
    /\ [][(ThreadCreated /\ pc = "s_safe" /\ pc' # "s_safe") =>
             /\ cyc = "exited"
             /\ ecat_thread_running = 0
             /\ master_initialized = 1
             /\ outputs'.controlword = 6
             /\ outputs'.target_torque = 0]_vars
    /\ []((ThreadCreated /\ StopImageSent) =>
             /\ cyc = "exited"
             /\ outputs.controlword = 6
             /\ outputs.target_torque = 0)

\* a system that had enabled its drive has been shut down
C22_Witness ==
    /\ ThreadCreated
    /\ pc = "ctl_idle"
    /\ master_initialized = 0
    /\ state_machine_initialized = 1
    /\ outputs.controlword = 6
    /\ cyc = "exited"

\* ------------------------------------------------------------ properties: the rewrite sequence

\* the writes of a rewrite of PDO p, all but the last, as <<index, subindex, value>>:
\* assignment := 0, count := 0, entries 1..N ascending, count := N
RewriteHead(p) ==
    <<  <<pdo_assign_idx(p), 0, 0>>, <<pdo_map_idx(p), 0, 0>>  >>
    \o [i \in 1..num_mapped_objects(p) |-> <<pdo_map_idx(p), i, mapped_objects(p)[i]>>]
    \o <<  <<pdo_map_idx(p), 0, num_mapped_objects(p)>>  >>

\* C23: the SDO writes of a call of negotiate are, in order and with nothing in
\* between, a prefix of: assignment subindex 0 := 0, mapping subindex 0 := 0,
\* the target entries to subindices 1..N ascending, mapping subindex 0 := N,
\* assignment subindex 0 := a nonzero value. The read-back of the count is made
\* after all of them, and a call that rewrote and returns success read N.
C23_RewriteOrder ==
    /\ Len(sdo_log) <= RewriteWrites
    /\ \A i \in 1..Len(sdo_log) :
          IF i < RewriteWrites
          THEN sdo_log[i] = RewriteHead(neg_pdo)[i]
          ELSE /\ sdo_log[i][1] = pdo_assign_idx(neg_pdo)
               /\ sdo_log[i][2] = 0
               /\ sdo_log[i][3] # 0
    /\ pc = "n_ver" => Len(sdo_log) = RewriteWrites
    /\ (pc = "h_ret" /\ rv = 0 /\ sdo_log # <<>>) =>
          /\ Len(sdo_log) = RewriteWrites
          /\ od[neg_pdo].count = num_mapped_objects(neg_pdo)

\* a rewrite has run to its end and the call has returned success
C23_Witness ==
    /\ pc = "h_ret"
    /\ rv = 0
    /\ Len(sdo_log) = RewriteWrites
    /\ ActiveList(od_prev) # ActiveList(od[neg_pdo])

\* C24: after a successful rewrite (the call returned 0 after all its N + 4
\* writes), subindex 0 of the assignment object holds the nonzero value it held
\* when the call was made.
C24_AssignRestored ==
    (pc = "h_ret" /\ rv = 0 /\ Len(sdo_log) = RewriteWrites /\ od_prev.assign # 0) =>
        od[neg_pdo].assign = od_prev.assign

\* the mapping the call started from is not the target list: the count differs,
\* or one of the entries 1..N differs
StartedDifferent ==
    \/ od_prev.count # num_mapped_objects(neg_pdo)
    \/ \E i \in 1..num_mapped_objects(neg_pdo) :
          od_prev.entries[i] # mapped_objects(neg_pdo)[i]

\* C25: a call of negotiate that found a mapping other than the target list (same
\* count with a differing entry, or another count), or one of whose reads of
\* the current mapping failed, returns success only after the whole sequence:
\* the two disabling writes, a write of every one of the N target entries to
\* subindices 1..N, and the two enabling writes. It never returns without a
\* write unless PRE-OP was not confirmed.
C25_FullRewriteOnMismatch ==
    (pc = "h_ret" /\ (StartedDifferent \/ read_fault)) =>
        /\ rv = 0 =>
              /\ Len(sdo_log) = RewriteWrites
              /\ \A i \in 1..num_mapped_objects(neg_pdo) :
                    sdo_log[i + 2] = <<pdo_map_idx(neg_pdo), i, mapped_objects(neg_pdo)[i]>>
        /\ sdo_log = <<>> => rv = 0 - 1

\* the drive held N entries of which exactly one differed; all N were written
C25_Witness ==
    /\ pc = "h_ret"
    /\ rv = 0
    /\ od_prev.count = num_mapped_objects(neg_pdo)
    /\ Cardinality({i \in 1..num_mapped_objects(neg_pdo) :
                      od_prev.entries[i] # mapped_objects(neg_pdo)[i]}) = 1
    /\ Len(sdo_log) = RewriteWrites

\* ------------------------------------------------------------ properties: stopping the thread

\* C26: from any state in which the run flag is clear and the cyclic thread has
\* not yet returned (it polls for master_initialized, is somewhere in a tick of
\* the loop, or is inside perform) the thread goes on to return; and so the
\* pthread_join of soem_interface_stop_master returns. A thread that sees the
\* clear flag before its first tick (at the polling loop or at the loop test)
\* returns without starting a tick.
C26_StopReachesExit ==
    /\ [](ecat_thread_running = 0 /\ ThreadAlive => <>(cyc = "exited"))
    /\ [](pc = "s_join" => <>(pc = "s_safe"))
    /\ [][(ecat_thread_running = 0 /\ cyc \in {"c_wait", "c_head"} /\ cyc' # cyc) =>
             cyc' \in {"c_head", "exited"} /\ (cyc = "c_head" => cyc' = "exited")]_vars

\* the stop was requested while perform was in progress
C26_Witness ==
    /\ pc = "s_join"
    /\ ecat_thread_running = 0
    /\ cyc = "p_dec"
    /\ attempt >= 1

\* ------------------------------------------------------------ properties: the result of set_state

\* C27: when soem_interface_set_ethercat_state has returned 0, the state last
\* read from the slave, in its low four bits, is the state that was asked for.
C27_SuccessMeansTargetObserved ==
    (pc = "hs_ret" /\ rv = 0) => ec_state[ss_slave] % 16 = desired_state


\* ------------------------------------------------------------ properties: the torque that is sent

\* C28: the torque field sent by the cyclic thread is non-zero only if the
\* register's CiA 402 state was OPERATION_ENABLED when the image of that tick was
\* written: the write of lines 452-456 stores a non-zero torque only in that
\* state, no step taken between that write and the last exchange of the tick
\* changes the field, and every exchange of
\* perform_cia402_transition_to_operational (line 416) sends torque 0
C28_TorqueOnlyWhenEnabledAtWrite ==
    [][/\ (cyc = "c_out" /\ cyc' = "c_xchg" /\ outputs'.target_torque # 0)
             => current_cia402_state = "OPERATION_ENABLED"
       /\ cyc \in {"c_xchg", "p_rd", "p_dec"}
             => outputs'.target_torque = outputs.target_torque
       /\ (cyc = "p_dec" /\ current_cia402_state' # "OPERATION_ENABLED")
             => outputs'.target_torque = 0]_vars

\* perform is about to exchange with a non-zero setpoint stored and the drive
\* not enabled
C28_Witness ==
    /\ cyc = "p_dec"
    /\ target_torque_f # 0
    /\ get_cia402_state(current_statusword) # "OPERATION_ENABLED"
    /\ outputs.target_torque = 0


\* ------------------------------------------------------------ properties: the controlword that is sent

\* C29: every controlword the cyclic thread has placed in the output image when
\* it exchanges process data (line 465), from its first tick on, is one of
\* Shutdown 0x06, SwitchOn 0x07, EnableOperation 0x0F and FaultReset 0x80
C29_ControlwordIsCommand ==
    (cyc = "c_xchg" /\ somanet_outputs)
        => outputs.controlword \in {6, 7, 15, CIA402_CONTROLWORD_FAULT_RESET}


\* C30: once perform_cia402_transition_to_operational has returned success
\* (state_machine_initialized = 1, line 490), every image the loop is about to
\* exchange carries controlword EnableOperation 0x0F
C30_EnableOperationAfterSuccess ==
    (cyc = "c_xchg" /\ somanet_outputs /\ state_machine_initialized = 1)
        => outputs.controlword = 15


\* ------------------------------------------------------------ properties: a degraded tick

\* C31: on a tick whose working counter is below expectedWKC the classification
\* of lines 473-498 clears communication_ok and goes straight to the slave check
\* of line 501, and no step taken from the classification to the end of that
\* check changes the register's statusword, CiA 402 state, position or velocity;
\* perform_cia402_transition_to_operational is not entered on that tick
C31_DegradedTickLeavesTelemetry ==
    [][/\ (cyc = "c_class" /\ wkc < expectedWKC /\ cyc' # cyc)
             => (cyc' = "c_chk" /\ communication_ok' = 0)
       /\ (cyc \in {"c_class", "c_chk"} /\ wkc < expectedWKC)
             => /\ cyc' \in {"c_class", "c_chk", "c_head"}
                /\ UNCHANGED <<current_statusword, current_cia402_state,
                               current_position_f, current_velocity_f>>]_vars

\* a degraded tick has been classified after an exchange that brought a
\* statusword other than the one the register holds
C31_Witness ==
    /\ cyc = "c_chk"
    /\ wkc < expectedWKC
    /\ communication_ok = 0
    /\ somanet_inputs
    /\ inputs.statusword # current_statusword
====
